---- MODULE Spec2Model ----
(***************************************************************************)
(* Model of the RoboCup player gateway, controllers/player/player.cpp:     *)
(* the PlayerServer step loop, its framed receive path, the dispatch of    *)
(* actuator requests, the sensor subscription sets, the snapshot build,    *)
(* and the team bandwidth quota.                                           *)
(*                                                                         *)
(* One call of PlayerServer::step() is the chain of actions               *)
(*   StepAccept                                   (no client), or          *)
(*   StepBegin ; RecvCall* ; PrepareSensorMessage ; UpdateDevices ;        *)
(*   SendSensorMessage ; SendAll                  (client connected),      *)
(* sequenced by pc.  The client, the network and the team mates act        *)
(* between two calls of step() (pc = "idle").                              *)
(***************************************************************************)
EXTENDS Integers, Sequences, FiniteSets, TLC

VARIABLES
  cfg,                 \* the run's environment: step duration, what the client may send
  pc,                  \* position inside PlayerServer::step()
  client_fd,           \* PlayerServer::client_fd (-1: no session)
  controller_time,     \* PlayerServer::controller_time
  content_size,        \* PlayerServer::content_size
  recv_index,          \* PlayerServer::recv_index
  recv_buffer,         \* PlayerServer::recv_buffer, the bytes written so far
  rd,                  \* the receiveData() call in progress
  sensors,             \* PlayerServer::sensors
  new_sensors,         \* PlayerServer::new_sensors
  samplingPeriod,      \* the host's sampling period of each device
  motorPosition,       \* the host's position target of each motor
  actuators,           \* the host's other targets: velocity, force, torque, PID, exposure
  sensor_measurements, \* PlayerServer::sensor_measurements
  data_transferred,    \* the static window of bandwidth_usage()
  files,               \* the quota-<team>-<id>.txt files
  listenQueue,         \* the peer waiting in the listen backlog
  peer,                \* the connected client's end of the socket
  toSend,              \* bytes the client has written that have not arrived
  wire,                \* bytes that have arrived and recv() has not returned
  hist                 \* observations of the run the properties are stated on

vars == <<cfg, pc, client_fd, controller_time, content_size, recv_index,
          recv_buffer, rd, sensors, new_sensors, samplingPeriod, motorPosition,
          actuators,
          sensor_measurements, data_transferred, files, listenQueue, peer,
          toSend, wire, hist>>

----------------------------------------------------------------------------
(* Bounds of the model *)

\* frames one client writes in a run of the framing specification
MaxFrames == 2
\* payload bytes of a frame in the framing specification
MaxPayloadLen == 2
\* command frames one client writes in a run of the device specification
MaxCommands == 2
\* connected steps of a run (one less in the dispatch specification)
MaxSteps == 3
\* connections attempted in a run of the device specification
MaxConnects == 1
\* connections attempted in a run of the framing specification
MaxFramingConnects == 2
\* quota files team mates write in a run
MaxPublishes == 1
\* entries of a batch in the dispatch specification
MaxBatchLen == 2
\* connections attempted in a run of the admission specification
MaxAdmissions == 3

----------------------------------------------------------------------------
(* Program constants *)

TEAM_QUOTA == 1000 * 1024 * 1024
\* the player id main() derives from the robot's name
player_id == 2
\* the descriptor accept() returns
ClientFd == 5
NoFd == -1
\* a byte of new char[] storage nothing has written
Uninit == -1

AllowedHosts == {"trusted"}
Hosts == {"trusted", "stranger"}

\* The robot's devices and their node types; "ghost" names no device.
Devices == {"acc", "motor"}
Names == Devices \cup {"ghost"}
NodeType(d) == IF d = "acc" THEN "ACCELEROMETER" ELSE "MOTOR"
SensorTypes == {"ACCELEROMETER", "CAMERA", "GYRO", "POSITION_SENSOR", "TOUCH_SENSOR"}

Min(a, b) == IF a < b THEN a ELSE b
Max(a, b) == IF a > b THEN a ELSE b

RECURSIVE SumSeq(_)
SumSeq(s) == IF s = <<>> THEN 0 ELSE Head(s) + SumSeq(Tail(s))

IsPrefix(s, t) == Len(s) <= Len(t) /\ SubSeq(t, 1, Len(s)) = s

----------------------------------------------------------------------------
(* Wire format: uint32 big-endian length, then the payload (htonl/ntohl) *)

\* htonl(n) as the four bytes that go on the wire
htonl(n) == << (n \div 16777216) % 256, (n \div 65536) % 256, (n \div 256) % 256, n % 256 >>

\* ntohl of the four bytes in memory, stored into the int content_size
ntohl_int(raw) ==
  (IF raw[1] >= 128 THEN raw[1] - 256 ELSE raw[1]) * 16777216
    + raw[2] * 65536 + raw[3] * 256 + raw[4]

Frame(payload) == htonl(Len(payload)) \o payload

\* recv(fd, buffer, n) stores the bytes at buffer[0..n-1]; buffer is storage
\* buf seen from offset off
WriteAt(buf, off, bytes) ==
  [i \in 1..Max(Len(buf), off + Len(bytes)) |->
     IF i > off /\ i <= off + Len(bytes) THEN bytes[i - off]
     ELSE IF i <= Len(buf) THEN buf[i] ELSE Uninit]

\* The length bytes of storage buf as ParseFromArray reads them: a byte
\* nothing wrote holds any value (fill)
ReadArray(buf, length, fill) ==
  [i \in 1..length |->
     IF i <= Len(buf) /\ buf[i] # Uninit THEN buf[i] ELSE fill[i]]

----------------------------------------------------------------------------
(* ActuatorRequests: the model's one-byte-per-entry encoding of a batch *)

MotorPositionCmd(n, v) == [type |-> "motor_position", name |-> n, value |-> v]
\* the motor commands other than positions, in the order processBuffer walks them
MotorTargets == {"velocity", "force", "torque", "pid"}
MotorTargetCmd(k, n, v) == [type |-> k, name |-> n, value |-> v]
CameraQualityCmd(n, v) == [type |-> "camera_quality", name |-> n, value |-> v]
CameraExposureCmd(n, v) == [type |-> "camera_exposure", name |-> n, value |-> v]
SensorTimeStepCmd(n, t) == [type |-> "sensor_time_step", name |-> n, value |-> t]

\* The entry a payload byte carries, for basic time step S
Decode(b, S) ==
  CASE b = 1 -> SensorTimeStepCmd("acc", S)
    [] b = 2 -> SensorTimeStepCmd("acc", 2 * S)
    [] b = 3 -> SensorTimeStepCmd("acc", 0)
    [] b = 4 -> SensorTimeStepCmd("acc", S \div 2)
    [] b = 5 -> SensorTimeStepCmd("acc", S + S \div 2)
    [] b = 6 -> SensorTimeStepCmd("motor", S)
    [] b = 7 -> SensorTimeStepCmd("ghost", S)
    [] b = 8 -> MotorPositionCmd("motor", 1)
    [] b = 9 -> MotorPositionCmd("ghost", 1)
    [] b = 10 -> MotorPositionCmd("motor", 2)
    [] b = 11 -> MotorTargetCmd("velocity", "ghost", 1)
    [] b = 12 -> MotorTargetCmd("force", "ghost", 1)
    [] b = 13 -> MotorTargetCmd("torque", "ghost", 1)
    [] b = 14 -> MotorTargetCmd("pid", "ghost", 1)
    [] b = 15 -> CameraQualityCmd("ghost", 1)
    [] b = 16 -> CameraExposureCmd("ghost", 1)
    [] b = 17 -> MotorTargetCmd("velocity", "motor", 1)
    [] b = 18 -> CameraExposureCmd("acc", 1)
    [] OTHER -> [type |-> "none", name |-> "", value |-> 0]

Codes == 1..18

\* ActuatorRequests::ParseFromArray: the entries of the payload, in order
ParseFromArray(payload, S) ==
  SelectSeq([i \in 1..Len(payload) |-> Decode(payload[i], S)],
            LAMBDA c : c.type # "none")

----------------------------------------------------------------------------
(* The host: device registry *)

getDevice(n) == IF n \in Devices THEN n ELSE "NULL"
getMotor(n) == IF n \in Devices /\ NodeType(n) = "MOTOR" THEN n ELSE "NULL"
getCamera(n) == IF n \in Devices /\ NodeType(n) = "CAMERA" THEN n ELSE "NULL"

----------------------------------------------------------------------------
(* warn() and the entries of a snapshot *)

Warning(n, what) == [message_type |-> "WARNING_MESSAGE", name |-> n, text |-> what]
QuotaError == [message_type |-> "ERROR_MESSAGE", name |-> "", text |-> "quota exceeded"]

warn(ds, n, what) == [ds EXCEPT !.messages = Append(@, Warning(n, what))]

EmptyMeasurements ==
  [time |-> 0, real_time |-> FALSE, measurements |-> {}, messages |-> <<>>]

----------------------------------------------------------------------------
(* PlayerServer::processBuffer: the dispatch of one batch.                 *)
(* ds = [sensors, new_sensors, period, motor, act, messages] is the part of *)
(* the state a batch can change.                                           *)

\* mutant: the sensor is inserted into the reporting set at once
StageSensor_Immediate(ds, device, sensor_time_step) ==
  IF sensor_time_step # 0
    THEN [ds EXCEPT !.sensors = @ \cup {device}]
    ELSE [ds EXCEPT !.sensors = @ \ {device}]

\* mutant: the device is staged whether or not it is reporting already
StageSensor_NoCount(ds, device, sensor_time_step) ==
  IF sensor_time_step # 0
    THEN [ds EXCEPT !.new_sensors = @ \cup {device}]
    ELSE [ds EXCEPT !.sensors = @ \ {device}]

\* lines 393-399: stage the device, or erase it from the reporting set
StageSensor(ds, device, sensor_time_step) ==
  IF sensor_time_step # 0
    THEN IF device \notin ds.sensors
           THEN [ds EXCEPT !.new_sensors = @ \cup {device}]
           ELSE ds
    ELSE [ds EXCEPT !.sensors = @ \ {device}]

\* lines 400-438: validate the period and configure the device's sampling
ConfigureSampling(ds, device, n, sensor_time_step, S) ==
  IF sensor_time_step # 0 /\ sensor_time_step < S
    THEN warn(ds, n, "time step below basic time step")
  ELSE IF sensor_time_step % S # 0
    THEN warn(ds, n, "time step not a multiple of basic time step")
  ELSE IF NodeType(device) \in SensorTypes
    THEN [ds EXCEPT !.period[device] = sensor_time_step]
  ELSE warn(ds, n, "device not supported")

\* lines 388-441: one sensor_time_steps entry
ApplySensorTimeStep(ds, c, S) ==
  LET device == getDevice(c.name) IN
  IF device # "NULL"
    THEN ConfigureSampling(StageSensor(ds, device, c.value), device, c.name, c.value, S)
    ELSE warn(ds, c.name, "device not found")

\* mutant: a position for an unknown motor is dropped without a warning
ApplyMotorPosition_Silent(ds, c) ==
  LET motor == getMotor(c.name) IN
  IF motor # "NULL" THEN [ds EXCEPT !.motor[motor] = c.value] ELSE ds

\* lines 330-337: one motor_positions entry
ApplyMotorPosition(ds, c) ==
  LET motor == getMotor(c.name) IN
  IF motor # "NULL"
    THEN [ds EXCEPT !.motor[motor] = c.value]
    ELSE warn(ds, c.name, "motor not found")

RECURSIVE ApplyMotorPositions(_, _)
ApplyMotorPositions(ds, cs) ==
  IF cs = <<>> THEN ds
  ELSE ApplyMotorPositions(ApplyMotorPosition(ds, Head(cs)), Tail(cs))

\* lines 338-369: one motor_velocities, motor_forces, motor_torques or
\* motor_pids entry
ApplyMotorTarget(ds, c) ==
  LET motor == getMotor(c.name) IN
  IF motor # "NULL"
    THEN [ds EXCEPT !.act[c.type][motor] = c.value]
    ELSE warn(ds, c.name, "motor not found")

\* lines 370-377: one camera_qualities entry
ApplyCameraQuality(ds, c) ==
  LET camera == getCamera(c.name) IN
  IF camera # "NULL"
    THEN warn(ds, "", "CameraQuality is not yet implemented")
    ELSE warn(ds, c.name, "camera not found")

\* lines 378-385: one camera_exposures entry
ApplyCameraExposure(ds, c) ==
  LET camera == getCamera(c.name) IN
  IF camera # "NULL"
    THEN [ds EXCEPT !.act["exposure"][camera] = c.value]
    ELSE warn(ds, c.name, "camera not found")

\* one entry of a repeated field other than sensor_time_steps
ApplyActuator(ds, c) ==
  IF c.type = "motor_position" THEN ApplyMotorPosition(ds, c)
  ELSE IF c.type \in MotorTargets THEN ApplyMotorTarget(ds, c)
  ELSE IF c.type = "camera_quality" THEN ApplyCameraQuality(ds, c)
  ELSE ApplyCameraExposure(ds, c)

RECURSIVE ApplyActuators(_, _)
ApplyActuators(ds, cs) ==
  IF cs = <<>> THEN ds
  ELSE ApplyActuators(ApplyActuator(ds, Head(cs)), Tail(cs))

RECURSIVE ApplySensorTimeSteps(_, _, _)
ApplySensorTimeSteps(ds, cs, S) ==
  IF cs = <<>> THEN ds
  ELSE ApplySensorTimeSteps(ApplySensorTimeStep(ds, Head(cs), S), Tail(cs), S)

\* lines 322-442: the repeated fields are walked type by type
processBuffer(ds, payload, S) ==
  LET actuatorRequests == ParseFromArray(payload, S)
      OfType(t) == SelectSeq(actuatorRequests, LAMBDA c : c.type = t)
      positioned == ApplyMotorPositions(ds, OfType("motor_position"))
      actuated ==
        ApplyActuators(positioned,
          OfType("velocity") \o OfType("force") \o OfType("torque")
            \o OfType("pid") \o OfType("camera_quality")
            \o OfType("camera_exposure"))
  IN ApplySensorTimeSteps(actuated, OfType("sensor_time_step"), S)

----------------------------------------------------------------------------
(* SensorMeasurements::ByteSizeLong: the serialized size of a snapshot *)

\* bytes of a protobuf varint
VarintLen(n) ==
  IF n < 128 THEN 1 ELSE IF n < 16384 THEN 2 ELSE IF n < 2097152 THEN 3
  ELSE IF n < 268435456 THEN 4 ELSE 5

\* uint32 time: tag and varint, absent when 0
TimeFieldSize(t) == IF t = 0 THEN 0 ELSE 1 + VarintLen(t)
\* uint64 real_time in milliseconds since the epoch: tag and a 6-byte varint
RealTimeFieldSize == 7
\* one accelerometer entry: name and a vector of three doubles
MeasurementSize == 36
\* one warning entry: the type and a text of about fifty characters
WarningEntrySize == 60
\* std::to_string(TEAM_QUOTA) + " MB/s quota exceeded."
ErrorTextLen == 31
\* the error entry: the text with its two (tag, length) prefixes
ErrorEntrySize == ErrorTextLen + 4

MessageSize(m) ==
  IF m.message_type = "ERROR_MESSAGE" THEN ErrorEntrySize ELSE WarningEntrySize

RECURSIVE MessagesSize(_)
MessagesSize(ms) ==
  IF ms = <<>> THEN 0 ELSE MessageSize(Head(ms)) + MessagesSize(Tail(ms))

ByteSizeLong(sm) ==
  TimeFieldSize(sm.time)
    + (IF sm.real_time THEN RealTimeFieldSize ELSE 0)
    + MeasurementSize * Cardinality(sm.measurements)
    + MessagesSize(sm.messages)

----------------------------------------------------------------------------
(* PlayerServer::prepareSensorMessage *)

\* mutant: every active sensor is sampled at every step
Sampled_Always(t, period) == TRUE

\* lines 453, 466, 511, 524, 533: controller_time % getSamplingPeriod()
Sampled(t, period) == t % period = 0

\* The devices of the reporting set one of the dynamic_casts matches
Castable(ss) == {d \in ss : NodeType(d) \in SensorTypes}

\* mutant: the snapshot is built from an empty one
prepareSensorMessage_Fresh(sm, ss, period, t, zero) ==
  [EmptyMeasurements EXCEPT
     !.time = t,
     !.real_time = TRUE,
     !.measurements =
        {d \in {x \in ss : NodeType(x) \in SensorTypes} :
           IF period[d] = 0 THEN zero = "sample" ELSE t % period[d] = 0}]

\* lines 444-562, for a reporting set without a zero period; zero is what
\* the modulo by a period of 0 yields where it does not trap
prepareSensorMessage(sm, ss, period, t, zero) ==
  [sm EXCEPT
     !.time = t,
     !.real_time = TRUE,
     !.measurements =
        {d \in Castable(ss) :
           IF period[d] = 0 THEN zero = "sample" ELSE Sampled(t, period[d])}]

----------------------------------------------------------------------------
(* PlayerServer::updateDevices *)

\* mutant: the staged sensors are dropped instead of promoted
updateDevices_Drop(ss, ns) == [sensors |-> ss, new_sensors |-> {}]

\* lines 564-569
updateDevices(ss, ns) == [sensors |-> ss \cup ns, new_sensors |-> {}]

----------------------------------------------------------------------------
(* PlayerServer::bandwidth_usage *)

Missing == <<-1>>

window_size(S) == 1000 \div S

\* the largest value of int sum (line 597)
IntMax == 2147483647

\* sum += b on an int: the value the int holds after the addition, which wraps
\* round (two's complement) when the result is beyond its range
AddInt(a, b) ==
  IF a > 0 /\ b > IntMax - a THEN (a - IntMax - 1) + (b - IntMax - 1)
  ELSE IF a < 0 /\ b < (-IntMax - 1) - a THEN (a + IntMax + 1) + (b + IntMax + 1)
  ELSE a + b

\* sum += s[1], ..., sum += s[Len(s)]
RECURSIVE AddAll(_, _)
AddAll(sum, s) == IF s = <<>> THEN sum ELSE AddAll(AddInt(sum, Head(s)), Tail(s))

\* the team mates' files that exist and hold no line: a file is empty from the
\* fopen(filename, "w") of its writer (line 606) until the writer's fclose
EmptyFiles(fs) == {i \in (1..4) \ {player_id} : fs[i] = <<>>}

\* lines 616-625: what the read loop over one file adds to sum.  A missing file
\* is skipped (fopen returns NULL).  On a file without a line, feof() is false
\* before the first read and fscanf returns EOF, which is not 0: the loop does
\* not break and adds v, which was never assigned.
FileSum(sum, f, v) ==
  IF f = Missing THEN sum
  ELSE IF f = <<>> THEN AddInt(sum, v)
  ELSE AddAll(sum, f)

\* lines 612-626: sum after the loop over the team mates' files, in the order
\* of the ids; v[i] is the uninitialised int read for the empty file i
RECURSIVE TeamMatesSum(_, _, _, _)
TeamMatesSum(sum, fs, v, i) ==
  IF i > 4 THEN sum
  ELSE IF i = player_id THEN TeamMatesSum(sum, fs, v, i + 1)
  ELSE TeamMatesSum(FileSum(sum, fs[i], IF i \in DOMAIN v THEN v[i] ELSE 0),
                    fs, v, i + 1)

\* lines 593-628: the window after the write, the files after the publication
\* and the returned sum
bandwidth_usage(window, fs, new_packet_size, t, S, v) ==
  LET index == (t \div S) % window_size(S)
      w == [window EXCEPT ![index + 1] = new_packet_size]
      published == [fs EXCEPT ![player_id] = w]
  IN [window |-> w, files |-> published,
      sum |-> TeamMatesSum(AddAll(0, w), published, v, 1)]

----------------------------------------------------------------------------
(* PlayerServer::sendSensorMessage: the payload handed to send_all *)

\* mutant: the error entry is added to the snapshot instead of replacing it
QuotaReplacement_Keep(sm) == [sm EXCEPT !.messages = Append(@, QuotaError)]

\* lines 574-578
QuotaReplacement(sm) ==
  [EmptyMeasurements EXCEPT !.messages = <<QuotaError>>]

\* mutant: the quota is never enforced
Payload_NoQuota(sm, usage) == sm

\* lines 572-580
Payload(sm, usage) ==
  IF usage > TEAM_QUOTA THEN QuotaReplacement(sm) ELSE sm

----------------------------------------------------------------------------
(* State *)

devVars == <<sensors, new_sensors, samplingPeriod, motorPosition, actuators,
             sensor_measurements>>
bufVars == <<content_size, recv_index, recv_buffer>>
netVars == <<listenQueue, peer, toSend, wire>>
quotaVars == <<data_transferred, files>>

basic_time_step == cfg.step

NoCall == [header |-> FALSE, length |-> 0, received |-> 0, raw |-> <<0, 0, 0, 0>>]

\* lines 277-284: the receiveData() call one turn of the receive loop makes
EnterReceiveData(cs, ri) ==
  IF cs = 0
    THEN [header |-> TRUE, length |-> 4, received |-> 0, raw |-> <<0, 0, 0, 0>>]
    ELSE [header |-> FALSE, length |-> cs - ri, received |-> 0, raw |-> <<0, 0, 0, 0>>]

InitHist ==
  [connects |-> 0, sessions |-> 0, steps |-> 0, frames |-> 0, publishes |-> 0,
   greeting |-> "none", built |-> 0, sent |-> 0,
   clientPayloads |-> <<>>, handed |-> <<>>,
   startSensors |-> {}, enabledCur |-> {}, enabledPrev |-> {}, disabledCur |-> {},
   undone |-> {}, allocs |-> 0, recorded |-> <<>>, torn |-> FALSE,
   dispatches |-> 0, last |-> <<>>, warned |-> <<>>,
   usage |-> 0, original |-> EmptyMeasurements, sendOk |-> "none"]

InitState(c) ==
  /\ cfg = c
  /\ pc = "idle"
  /\ client_fd = NoFd
  /\ controller_time = 0
  /\ content_size = 0
  /\ recv_index = 0
  /\ recv_buffer = <<>>
  /\ rd = NoCall
  /\ sensors = {}
  /\ new_sensors = {}
  /\ samplingPeriod = [d \in Devices |-> 0]
  /\ motorPosition = [d \in {x \in Devices : NodeType(x) = "MOTOR"} |-> 0]
  /\ actuators = [k \in MotorTargets |-> [d \in {x \in Devices : NodeType(x) = "MOTOR"} |-> 0]]
                   @@ [k \in {"exposure"} |-> [d \in {x \in Devices : NodeType(x) = "CAMERA"} |-> 0]]
  /\ sensor_measurements = EmptyMeasurements
  /\ data_transferred = [i \in 1..window_size(c.step) |-> 0]
  /\ files = [i \in 1..4 |-> Missing]
  /\ listenQueue = "none"
  /\ peer = "none"
  /\ toSend = <<>>
  /\ wire = <<>>
  /\ hist = InitHist

\* The device run: whole command frames, one entry each
DeviceCfg ==
  [step |-> 32, shortReads |-> FALSE, logFrames |-> FALSE, logAdmission |-> FALSE,
   shortWrites |-> FALSE,
   codes |-> 1..5, garbage |-> 1..5, maxLen |-> 1, maxFrames |-> MaxCommands,
   maxConnects |-> MaxConnects, maxSteps |-> MaxSteps,
   pubIds |-> {3}, pubValues |-> {<<TEAM_QUOTA>>}]

\* The framing run: frames of up to MaxPayloadLen bytes, delivered in any chunks
FramingCfg ==
  [step |-> 32, shortReads |-> TRUE, logFrames |-> TRUE, logAdmission |-> FALSE,
   shortWrites |-> FALSE,
   codes |-> {8}, garbage |-> {8, 10}, maxLen |-> MaxPayloadLen,
   maxFrames |-> MaxFrames, maxConnects |-> MaxFramingConnects,
   maxSteps |-> MaxSteps,
   pubIds |-> {3}, pubValues |-> {<<TEAM_QUOTA>>}]

\* The admission run: peers connect and leave, no client sends a command; the
\* step is long, so that the window of bandwidth_usage (1000 / step slots)
\* comes round within the run
AdmissionCfg ==
  [step |-> 500, shortReads |-> FALSE, logFrames |-> FALSE, logAdmission |-> TRUE,
   shortWrites |-> TRUE,
   codes |-> {}, garbage |-> {}, maxLen |-> 0, maxFrames |-> 0,
   maxConnects |-> MaxAdmissions, maxSteps |-> MaxSteps,
   pubIds |-> {}, pubValues |-> {}]

\* The dispatch run: one batch of several entries, of every outcome the
\* dispatcher has for a name (applied, unknown, unsupported kind)
DispatchCfg ==
  [step |-> 32, shortReads |-> FALSE, logFrames |-> FALSE, logAdmission |-> FALSE,
   shortWrites |-> FALSE,
   codes |-> {1, 6, 7, 8, 9, 15}, garbage |-> {1}, maxLen |-> MaxBatchLen,
   maxFrames |-> 1, maxConnects |-> MaxConnects,
   maxSteps |-> MaxSteps - 1,
   pubIds |-> {3}, pubValues |-> {<<TEAM_QUOTA>>}]

\* The quota run: team mates' files that are missing, empty, within the quota
\* and beyond what an int holds
QuotaCfg ==
  [step |-> 32, shortReads |-> FALSE, logFrames |-> FALSE, logAdmission |-> FALSE,
   shortWrites |-> FALSE,
   codes |-> {1}, garbage |-> {0, 7}, maxLen |-> 1, maxFrames |-> 1,
   maxConnects |-> MaxConnects, maxSteps |-> MaxSteps - 1,
   pubIds |-> {1, 3},
   pubValues |-> {<<>>, <<5, 6>>, <<TEAM_QUOTA, TEAM_QUOTA, TEAM_QUOTA>>}]

\* The sessions run: a client subscribes and leaves, another is admitted
SessionsCfg ==
  [step |-> 32, shortReads |-> FALSE, logFrames |-> FALSE, logAdmission |-> FALSE,
   shortWrites |-> FALSE,
   codes |-> {1, 3}, garbage |-> {1}, maxLen |-> 1, maxFrames |-> MaxCommands,
   maxConnects |-> MaxConnects + 1, maxSteps |-> MaxSteps,
   pubIds |-> {3}, pubValues |-> {<<TEAM_QUOTA>>}]

Init == InitState(DeviceCfg)
InitSessions == InitState(SessionsCfg)
InitQuota == InitState(QuotaCfg)
InitDispatch == InitState(DispatchCfg)
InitFraming == InitState(FramingCfg)
InitAdmission == InitState(AdmissionCfg)

\* The payloads the client of this run writes
Payloads ==
  UNION {[1..n -> cfg.codes] : n \in 1..cfg.maxLen}

----------------------------------------------------------------------------
(* The client, the network and the team mates *)

ClientConnect(h) ==
  /\ pc = "idle"
  /\ listenQueue = "none"
  /\ hist.connects < cfg.maxConnects
  /\ listenQueue' = h
  /\ hist' = [hist EXCEPT !.connects = @ + 1]
  /\ UNCHANGED <<cfg, pc, client_fd, controller_time, bufVars, rd, devVars,
                 quotaVars, peer, toSend, wire>>

ClientSend(p) ==
  /\ pc = "idle"
  /\ client_fd # NoFd
  /\ peer = "open"
  /\ hist.frames < cfg.maxFrames
  /\ toSend' = toSend \o Frame(p)
  /\ hist' = [hist EXCEPT !.frames = @ + 1,
                          !.clientPayloads = IF cfg.logFrames THEN Append(@, p) ELSE @]
  /\ UNCHANGED <<cfg, pc, client_fd, controller_time, bufVars, rd, devVars,
                 quotaVars, listenQueue, peer, wire>>

\* the frame arrives whole before the next step
ClientSendWhole(p) ==
  /\ pc = "idle"
  /\ client_fd # NoFd
  /\ peer = "open"
  /\ hist.frames < cfg.maxFrames
  /\ wire' = wire \o Frame(p)
  /\ hist' = [hist EXCEPT !.frames = @ + 1,
                          !.clientPayloads = IF cfg.logFrames THEN Append(@, p) ELSE @]
  /\ UNCHANGED <<cfg, pc, client_fd, controller_time, bufVars, rd, devVars,
                 quotaVars, listenQueue, peer, toSend>>

Deliver(k) ==
  /\ pc = "idle"
  /\ client_fd # NoFd
  /\ k \in 1..Len(toSend)
  /\ wire' = wire \o SubSeq(toSend, 1, k)
  /\ toSend' = SubSeq(toSend, k + 1, Len(toSend))
  /\ UNCHANGED <<cfg, pc, client_fd, controller_time, bufVars, rd, devVars,
                 quotaVars, listenQueue, peer, hist>>

\* close() by the client: what it wrote still arrives, then recv() returns 0
ClientClose ==
  /\ pc = "idle"
  /\ client_fd # NoFd
  /\ peer = "open"
  /\ peer' = "closed"
  /\ UNCHANGED <<cfg, pc, client_fd, controller_time, bufVars, rd, devVars,
                 quotaVars, listenQueue, toSend, wire, hist>>

\* the connection is reset: recv() fails with ECONNRESET
ClientReset ==
  /\ pc = "idle"
  /\ client_fd # NoFd
  /\ peer = "open"
  /\ peer' = "reset"
  /\ toSend' = <<>>
  /\ wire' = <<>>
  /\ UNCHANGED <<cfg, pc, client_fd, controller_time, bufVars, rd, devVars,
                 quotaVars, listenQueue, hist>>

\* a team mate's process writes its quota file
TeammatePublish(i, w) ==
  /\ pc = "idle"
  /\ hist.publishes < MaxPublishes
  /\ i \in cfg.pubIds
  /\ w \in cfg.pubValues
  /\ files[i] # w
  /\ files' = [files EXCEPT ![i] = w]
  /\ hist' = [hist EXCEPT !.publishes = @ + 1]
  /\ UNCHANGED <<cfg, pc, client_fd, controller_time, bufVars, rd, devVars,
                 data_transferred, netVars>>

----------------------------------------------------------------------------
(* PlayerServer::step, no client: accept_client *)

\* mutant: every peer is admitted
Allowed_Any(h) == TRUE

\* lines 111-117: the peer's host name is one of the allowed hosts
Allowed(h) == \E a \in AllowedHosts : h = a

\* lines 118-126: the token accept_client sends to the peer
Greeting(h) == IF Allowed(h) THEN "Welcome" ELSE "Refused"

\* mutant: the admission of a client starts from no subscription
StepAccept_Fresh ==
  /\ pc = "idle"
  /\ client_fd = NoFd
  /\ listenQueue # "none"
  /\ Allowed(listenQueue)
  /\ client_fd' = ClientFd
  /\ controller_time' = 0
  /\ listenQueue' = "none"
  /\ peer' = "open"
  /\ toSend' = <<>>
  /\ wire' = <<>>
  /\ sensors' = {}
  /\ hist' = [hist EXCEPT !.sessions = @ + 1,
                          !.clientPayloads = <<>>, !.handed = <<>>, !.torn = FALSE]
  /\ UNCHANGED <<cfg, pc, bufVars, rd, new_sensors, samplingPeriod, motorPosition,
                 actuators, sensor_measurements, quotaVars>>

\* lines 231-236 and 104-129; hist.greeting is the token sent to the last peer
StepAccept ==
  /\ pc = "idle"
  /\ client_fd = NoFd
  /\ IF listenQueue = "none"
       THEN UNCHANGED <<client_fd, controller_time, netVars, hist>>
       ELSE IF Allowed(listenQueue)
         THEN /\ client_fd' = ClientFd
              /\ controller_time' = 0
              /\ listenQueue' = "none"
              /\ peer' = "open"
              /\ toSend' = <<>>
              /\ wire' = <<>>
              /\ hist' = [hist EXCEPT !.sessions = @ + 1,
                                      !.greeting = IF cfg.logAdmission
                                                     THEN Greeting(listenQueue) ELSE @,
                                      !.clientPayloads = <<>>, !.handed = <<>>,
                                      !.torn = FALSE]
         ELSE /\ listenQueue' = "none"
              /\ hist' = [hist EXCEPT !.greeting = IF cfg.logAdmission
                                                     THEN Greeting(listenQueue) ELSE @]
              /\ UNCHANGED <<client_fd, controller_time, peer, toSend, wire>>
  /\ UNCHANGED <<cfg, pc, bufVars, rd, devVars, quotaVars>>

----------------------------------------------------------------------------
(* PlayerServer::step, client connected *)

\* lines 238-249: the clock advances, select() is called, receiveMessages()
\* enters its loop
StepBegin ==
  /\ pc = "idle"
  /\ client_fd # NoFd
  /\ hist.steps < cfg.maxSteps
  /\ controller_time' = controller_time + basic_time_step
  /\ \E retval \in {0, -1} :
       IF retval = -1
         THEN pc' = "prepare" /\ rd' = NoCall
         ELSE pc' = "receive" /\ rd' = EnterReceiveData(content_size, recv_index)
  /\ hist' = [hist EXCEPT !.steps = @ + 1, !.startSensors = sensors,
                          !.sendOk = "none", !.built = 0, !.sent = 0]
  /\ UNCHANGED <<cfg, client_fd, bufVars, devVars, quotaVars, netVars>>

\* The part of the state a batch changes
DeviceState ==
  [sensors |-> sensors, new_sensors |-> new_sensors, period |-> samplingPeriod,
   motor |-> motorPosition, act |-> actuators,
   messages |-> sensor_measurements.messages]

\* Observed of a dispatched batch: the sensors an accepted enable command
\* names, and the devices a disable command names
AcceptedEnables(payload) ==
  {c.name : c \in
     {d \in {Decode(payload[i], basic_time_step) : i \in 1..Len(payload)} :
        /\ d.type = "sensor_time_step"
        /\ d.name \in Devices
        /\ NodeType(d.name) \in SensorTypes
        /\ d.value # 0
        /\ d.value >= basic_time_step
        /\ d.value % basic_time_step = 0}}

Disables(payload) ==
  {c.name : c \in
     {d \in {Decode(payload[i], basic_time_step) : i \in 1..Len(payload)} :
        d.type = "sensor_time_step" /\ d.name \in Devices /\ d.value = 0}}

\* Observed of the entries of a dispatched batch, in order: enabledCur, the
\* sensors inactive at the start of the step whose last command is an accepted
\* enable; disabledCur, the devices a disable names; undone, the sensors taken
\* out of enabledCur by a disable
RECURSIVE TrackSubscriptions(_, _)
TrackSubscriptions(h, payload) ==
  IF payload = <<>> THEN h
  ELSE LET b == <<Head(payload)>>
           on == AcceptedEnables(b)
           off == Disables(b)
       IN TrackSubscriptions(
            [h EXCEPT !.enabledCur = (@ \ off) \cup (on \ h.startSensors),
                      !.disabledCur = @ \cup off,
                      !.undone = (@ \cup (h.enabledCur \cap off)) \ on],
            Tail(payload))

\* lines 291-293 and 275: leave the receive loop, or take its next turn
NextTurn(bytes_received, fd, cs, ri) ==
  IF bytes_received = 0 \/ fd = NoFd
    THEN pc' = "prepare" /\ rd' = NoCall
    ELSE pc' = "receive" /\ rd' = EnterReceiveData(cs, ri)

\* lines 279-292: receiveData() has returned bytes_received to receiveMessages();
\* raw is the memory of content_size, buf the storage of recv_buffer;
\* hist.allocs counts the new char[] of the step
ReturnFromReceiveData(bytes_received, fd, raw, buf) ==
  /\ client_fd' = fd
  /\ IF rd.header
       THEN \* lines 280-281: ntohl, then new char[content_size]
            LET cs == ntohl_int(raw) IN
            /\ content_size' = cs
            /\ recv_buffer' = <<>>
            /\ hist' = [hist EXCEPT !.allocs = @ + 1]
            /\ UNCHANGED <<recv_index, devVars>>
            /\ IF cs < 0
                 THEN pc' = "aborted" /\ rd' = NoCall
                 ELSE NextTurn(bytes_received, fd, cs, recv_index)
       ELSE \* lines 285-288
            LET ri == recv_index + bytes_received IN
            IF ri = content_size
              THEN \E fill \in [{i \in 1..ri : i > Len(buf) \/ buf[i] = Uninit} -> cfg.garbage] :
                     LET payload == ReadArray(buf, ri, fill)
                         ds == processBuffer(DeviceState, payload, basic_time_step)
                     IN /\ recv_index' = 0
                        /\ content_size' = 0
                        /\ recv_buffer' = <<>>
                        /\ sensors' = ds.sensors
                        /\ new_sensors' = ds.new_sensors
                        /\ samplingPeriod' = ds.period
                        /\ motorPosition' = ds.motor
                        /\ actuators' = ds.act
                        /\ sensor_measurements' =
                             [sensor_measurements EXCEPT !.messages = ds.messages]
                        /\ hist' = [TrackSubscriptions(hist, payload) EXCEPT
                             !.handed = IF cfg.logFrames THEN Append(@, payload) ELSE @,
                             !.dispatches = @ + 1,
                             !.last = payload,
                             !.warned = @ \o SubSeq(ds.messages,
                                                    Len(sensor_measurements.messages) + 1,
                                                    Len(ds.messages))]
                        /\ NextTurn(bytes_received, fd, 0, 0)
              ELSE /\ recv_index' = ri
                   /\ recv_buffer' = buf
                   /\ UNCHANGED <<content_size, devVars, hist>>
                   /\ NextTurn(bytes_received, fd, content_size, ri)

\* What one recv() may return when n bytes are asked for and some have arrived
RecvSizes(n) ==
  IF cfg.shortReads THEN 1..Min(n, Len(wire)) ELSE {Min(n, Len(wire))}

\* lines 298-320: one recv() of the receiveData() loop, and the return to
\* receiveMessages() when the loop ends
RecvCall ==
  /\ pc = "receive"
  /\ UNCHANGED <<cfg, controller_time, quotaVars, listenQueue>>
  /\ \/ \* n > 0: the bytes are stored at buffer, received += n
        /\ wire # <<>>
        /\ \E n \in RecvSizes(rd.length - rd.received) :
             LET bytes == SubSeq(wire, 1, n)
                 raw == IF rd.header THEN WriteAt(rd.raw, 0, bytes) ELSE rd.raw
                 buf == IF rd.header THEN recv_buffer
                        ELSE WriteAt(recv_buffer, recv_index, bytes)
                 received == rd.received + n
             IN /\ wire' = SubSeq(wire, n + 1, Len(wire))
                /\ UNCHANGED <<peer, toSend>>
                /\ IF received < rd.length
                     THEN /\ rd' = [rd EXCEPT !.received = received, !.raw = raw]
                          /\ recv_buffer' = buf
                          /\ UNCHANGED <<pc, client_fd, content_size, recv_index,
                                         devVars, hist>>
                     ELSE ReturnFromReceiveData(received, client_fd, raw, buf)
     \/ \* n == -1 with EAGAIN: nothing has arrived
        /\ wire = <<>>
        /\ peer = "open" \/ (peer = "closed" /\ toSend # <<>>)
        /\ UNCHANGED <<peer, toSend, wire>>
        /\ ReturnFromReceiveData(rd.received, client_fd, rd.raw, recv_buffer)
     \/ \* n == 0: the client has closed
        /\ wire = <<>>
        /\ peer = "closed" /\ toSend = <<>>
        /\ peer' = "none"
        /\ UNCHANGED <<toSend, wire>>
        /\ ReturnFromReceiveData(rd.received, NoFd, rd.raw, recv_buffer)
     \/ \* n == -1 with another errno
        /\ peer = "reset"
        /\ peer' = "none"
        /\ UNCHANGED <<toSend, wire>>
        /\ ReturnFromReceiveData(rd.received, NoFd, rd.raw, recv_buffer)

\* lines 444-562; the modulo by a sampling period of 0 traps or yields a value
PrepareSensorMessage ==
  /\ pc = "prepare"
  /\ \E zero \in {"trap", "skip", "sample"} :
       /\ zero = "skip" \/ \E d \in Castable(sensors) : samplingPeriod[d] = 0
       /\ IF zero = "trap"
            THEN pc' = "aborted" /\ UNCHANGED <<sensor_measurements, hist>>
            ELSE /\ pc' = "update"
                 /\ sensor_measurements' =
                      prepareSensorMessage(sensor_measurements, sensors, samplingPeriod,
                                           controller_time, zero)
                 /\ hist' = [hist EXCEPT !.built = @ + 1]
  /\ UNCHANGED <<cfg, client_fd, controller_time, bufVars, rd, sensors, new_sensors,
                 samplingPeriod, motorPosition, actuators, quotaVars, netVars>>

\* lines 564-569
UpdateDevices ==
  /\ pc = "update"
  /\ pc' = "send"
  /\ LET u == updateDevices(sensors, new_sensors)
     IN sensors' = u.sensors /\ new_sensors' = u.new_sensors
  /\ UNCHANGED <<cfg, client_fd, controller_time, bufVars, rd, samplingPeriod,
                 motorPosition, actuators, sensor_measurements, quotaVars, netVars, hist>>

\* lines 571-580: the quota check, and the replacement of the snapshot;
\* hist.recorded is the payload size of every connected step so far
SendSensorMessage ==
  /\ pc = "send"
  /\ pc' = "write"
  /\ \E v \in [EmptyFiles(files) -> cfg.garbage] :
     LET size == ByteSizeLong(sensor_measurements)
         bu == bandwidth_usage(data_transferred, files, size, controller_time,
                               basic_time_step, v)
     IN /\ data_transferred' = bu.window
        /\ files' = bu.files
        /\ sensor_measurements' = Payload(sensor_measurements, bu.sum)
        /\ hist' = [hist EXCEPT !.usage = bu.sum, !.original = sensor_measurements,
                                !.recorded = IF cfg.logAdmission
                                               THEN Append(@, size) ELSE @]
  /\ UNCHANGED <<cfg, client_fd, controller_time, bufVars, rd, sensors, new_sensors,
                 samplingPeriod, motorPosition, actuators, netVars>>

\* lines 93-102: what the send() calls of one send_all may write of a frame on
\* the non-blocking socket: the whole frame; nothing, when the first send()
\* returns less than 1; a part of it, when a later send() does
SendOutcomes ==
  IF cfg.shortWrites THEN {"all", "partial", "failed"} ELSE {"all", "failed"}

\* lines 581-588 and send_all, lines 93-102: send() on the non-blocking socket
\* writes the whole frame, or returns less than 1 before it is written;
\* hist.torn: the bytes written to the session end inside a frame
SendAll ==
  /\ pc = "write"
  /\ pc' = "idle"
  /\ \E sent \in SendOutcomes :
       /\ client_fd = NoFd => sent = "failed"
       /\ hist' = [hist EXCEPT !.sendOk = sent, !.sent = @ + 1,
                               !.torn = @ \/ sent = "partial",
                               !.usage = 0, !.original = EmptyMeasurements,
                               !.startSensors = {},
                               !.enabledPrev = hist.enabledCur,
                               !.enabledCur = {}, !.disabledCur = {}, !.undone = {},
                               !.allocs = 0,
                               !.dispatches = 0, !.last = <<>>, !.warned = <<>>]
  /\ sensor_measurements' = EmptyMeasurements
  /\ UNCHANGED <<cfg, client_fd, controller_time, bufVars, rd, sensors, new_sensors,
                 samplingPeriod, motorPosition, actuators, quotaVars, netVars>>

----------------------------------------------------------------------------
(* Specifications *)

Step ==
  \/ StepAccept
  \/ StepBegin
  \/ RecvCall
  \/ PrepareSensorMessage
  \/ UpdateDevices
  \/ SendSensorMessage
  \/ SendAll

\* whole command frames: the sensor subscriptions, the snapshot and the quota
Next ==
  \/ \E h \in Hosts : ClientConnect(h)
  \/ \E p \in Payloads : ClientSendWhole(p)
  \/ ClientClose
  \/ ClientReset
  \/ \E i \in cfg.pubIds, w \in cfg.pubValues : TeammatePublish(i, w)
  \/ Step

Spec == Init /\ [][Next]_vars

\* batches of several entries: the command dispatcher
SpecDispatch == InitDispatch /\ [][Next]_vars

\* one client after another: what a session leaves to the next
SpecSessions == InitSessions /\ [][Next]_vars

\* team mates publishing their windows: the quota check
SpecQuota == InitQuota /\ [][Next]_vars

\* peers connecting and leaving: the admission of sessions
NextAdmission ==
  \/ \E h \in Hosts : ClientConnect(h)
  \/ ClientClose
  \/ ClientReset
  \/ Step

SpecAdmission == InitAdmission /\ [][NextAdmission]_vars

\* frames delivered in arbitrary chunks: the framed transport
NextFraming ==
  \/ \E h \in Hosts : ClientConnect(h)
  \/ \E p \in Payloads : ClientSend(p)
  \/ \E k \in 1..Len(toSend) : Deliver(k)
  \/ ClientClose
  \/ ClientReset
  \/ Step

SpecFraming == InitFraming /\ [][NextFraming]_vars

----------------------------------------------------------------------------
(* Properties *)

\* the snapshot of the current step has just been built; sensors is still the
\* reporting set the build walked
Built == pc = "update"

\* the quota check of the current step has just been made; sensor_measurements
\* is the payload that goes to send_all, hist.original the snapshot as built
Checked == pc = "write"

\* C1: chunking invariance.  On a session that started with an empty inbound
\* buffer, the payloads handed to processBuffer are a prefix of the payloads
\* the client framed, and once every byte the client wrote has been received
\* they are exactly those payloads - however the bytes were chunked.
C1_ChunkingInvariance ==
  (client_fd # NoFd /\ hist.sessions = 1 /\ peer \in {"open", "closed"}) =>
     /\ IsPrefix(hist.handed, hist.clientPayloads)
     /\ (wire = <<>> /\ toSend = <<>>) => hist.handed = hist.clientPayloads

\* C2: subscription-promotion ordering.  A sensor that was inactive at the start
\* of a step and got an accepted enable command in it has no measurement in
\* that step's snapshot; in the next connected step, unless a disable command
\* for it is dispatched there, it is in the reporting set at build time and is
\* measured whenever the simulated time is a multiple of its period.
C2_PromotionOrdering ==
  Built =>
     /\ \A d \in hist.enabledCur : d \notin sensor_measurements.measurements
     /\ \A d \in hist.enabledPrev \ hist.disabledCur :
          /\ d \in sensors
          /\ (samplingPeriod[d] # 0 /\ controller_time % samplingPeriod[d] = 0)
               => d \in sensor_measurements.measurements

\* C2 witness: the sensor enabled in the previous step, promoted at its end, is
\* measured in this one
C2_Witness ==
  /\ Built
  /\ "acc" \in hist.enabledPrev
  /\ "acc" \notin hist.disabledCur
  /\ "acc" \in hist.startSensors
  /\ "acc" \in sensor_measurements.measurements

\* C3: a device for which a disable command was dispatched in a step has no
\* measurement in the snapshot built in that step, whether it was active or
\* pending when the command was dispatched.
C3_DisabledNotReported ==
  Built => \A d \in hist.disabledCur : d \notin sensor_measurements.measurements

\* C3 witness: a sensor that was reporting at the start of the step is disabled
\* in it, at a time that is a multiple of the period it had
C3_Witness ==
  /\ Built
  /\ "acc" \in hist.disabledCur
  /\ "acc" \in hist.startSensors
  /\ "acc" \notin sensor_measurements.measurements

\* every entry of the payload is a subscription command for an existing device
\* with a non-zero period below the basic time step or not a multiple of it
OnlyRejectedPeriods(payload) ==
  /\ payload # <<>>
  /\ \A i \in 1..Len(payload) :
       LET c == Decode(payload[i], basic_time_step) IN
       /\ c.type = "sensor_time_step"
       /\ c.name \in Devices
       /\ c.value # 0
       /\ c.value < basic_time_step \/ c.value % basic_time_step # 0

\* C4: dispatching a subscription command whose period is rejected changes
\* neither the reporting set, nor the pending set, nor any sampling period.
C4_RejectedPeriodChangesNothing ==
  [][(hist'.dispatches = hist.dispatches + 1 /\ OnlyRejectedPeriods(hist'.last))
       => /\ sensors' = sensors
          /\ new_sensors' = new_sensors
          /\ samplingPeriod' = samplingPeriod]_vars

\* C5: no client input aborts the step loop.
C5_StepNeverAborted == pc # "aborted"

\* C6: quota replacement.  When the total returned by the quota check exceeds
\* TEAM_QUOTA the payload sent holds exactly one error entry and nothing else;
\* otherwise the snapshot is sent as built.  The check is made once, on the
\* size of the snapshot as built, which is what the window records.
C6_QuotaReplacement ==
  Checked =>
     /\ hist.usage > TEAM_QUOTA =>
          sensor_measurements =
            [time |-> 0, real_time |-> FALSE, measurements |-> {},
             messages |-> <<QuotaError>>]
     /\ hist.usage <= TEAM_QUOTA => sensor_measurements = hist.original
     /\ data_transferred[((controller_time \div basic_time_step)
                            % window_size(basic_time_step)) + 1]
          = ByteSizeLong(hist.original)

\* C6 witness: a snapshot that holds a measurement is replaced
C6_Witness ==
  /\ Checked
  /\ hist.usage > TEAM_QUOTA
  /\ hist.original.measurements # {}
  /\ sensor_measurements.measurements = {}

C8_SamplingAlignment ==
  Built =>
     \A d \in sensors :
        samplingPeriod[d] # 0 =>
          (d \in sensor_measurements.measurements
             <=> controller_time % samplingPeriod[d] = 0)

\* C8 witness: with P = 2 * S the sensor is left out at t = 3 * S
C8_Witness ==
  /\ Built
  /\ "acc" \in sensors
  /\ samplingPeriod["acc"] = 2 * basic_time_step
  /\ controller_time = 3 * basic_time_step
  /\ "acc" \notin sensor_measurements.measurements

\* a message is in flight: the header of the client's next frame has been
\* read as the client wrote it, and its payload is incomplete
InFlight ==
  /\ Len(hist.handed) < Len(hist.clientPayloads)
  /\ content_size = Len(hist.clientPayloads[Len(hist.handed) + 1])
  /\ recv_index < content_size

\* C9: when receiveData closes the session while a message is in flight, the
\* inbound buffer is back to no message pending (declared length 0, received
\* count 0).
C9_CloseResetsBuffer ==
  [][(client_fd # NoFd /\ client_fd' = NoFd /\ InFlight)
       => (content_size' = 0 /\ recv_index' = 0)]_vars

\* C10: a step whose send failed ends with the session closed.
C10_FailedSendEndsSession ==
  (pc = "idle" /\ hist.sendOk = "failed") => client_fd = NoFd

\* C11: session creation.  A session is created only by the admission attempt
\* of a tick that starts with no session, and only for a peer whose host name
\* equals an entry of the allow-list, which is sent the welcome token; a peer
\* that matches no entry is sent the rejection token and leaves the gateway
\* without a session; a peer that connects while a session is open waits.
C11_SessionCreation ==
  [][/\ (client_fd' # NoFd /\ client_fd' # client_fd) =>
          /\ pc = "idle" /\ client_fd = NoFd
          /\ listenQueue \in AllowedHosts
          /\ hist'.greeting = "Welcome"
          /\ hist'.sessions = hist.sessions + 1
     /\ (listenQueue \in Hosts \ AllowedHosts /\ listenQueue' = "none") =>
          /\ client_fd = NoFd /\ client_fd' = NoFd
          /\ peer' = peer
          /\ hist'.greeting = "Refused"
          /\ hist'.sessions = hist.sessions
     /\ (client_fd # NoFd /\ listenQueue # "none") => listenQueue' = listenQueue
    ]_vars

\* C11 witness: a stranger has been refused after a session was created and
\* closed, and the gateway has no session
C11_Witness ==
  /\ hist.greeting = "Refused"
  /\ hist.sessions = 1
  /\ client_fd = NoFd
  /\ listenQueue = "none"

\* C12: a tick that starts with a session advances the clock by one step
\* duration, builds one snapshot and attempts one send of it, whatever was
\* received; a tick that starts without a session builds and sends nothing.
C12_TickBuildsAndSends ==
  [][/\ (pc = "idle" /\ pc' # "idle") =>
          /\ client_fd # NoFd
          /\ controller_time' = controller_time + basic_time_step
     /\ pc # "idle" => controller_time' = controller_time
     /\ pc' # "aborted"
     /\ (pc # "idle" /\ pc' = "idle") => (hist'.built = 1 /\ hist'.sent = 1)
     /\ (pc = "idle" /\ client_fd = NoFd) =>
          /\ pc' = "idle"
          /\ sensor_measurements' = sensor_measurements
          /\ hist'.built = hist.built /\ hist'.sent = hist.sent
    ]_vars

\* the registry does not resolve the name the command carries (the lookup of
\* its command type returns NULL)
Unresolved(c) ==
  IF c.type = "sensor_time_step" THEN getDevice(c.name) = "NULL"
  ELSE IF c.type = "motor_position" \/ c.type \in MotorTargets
    THEN getMotor(c.name) = "NULL"
  ELSE getCamera(c.name) = "NULL"

\* the warning entries of msgs that name n
WarningsNaming(msgs, n) ==
  Cardinality({i \in 1..Len(msgs) :
                 msgs[i].message_type = "WARNING_MESSAGE" /\ msgs[i].name = n})

\* the entries of the payload that name n and are not resolved
UnresolvedNaming(payload, n) ==
  Cardinality({i \in 1..Len(payload) :
                 LET c == Decode(payload[i], basic_time_step)
                 IN c.type # "none" /\ c.name = n /\ Unresolved(c)})

\* the payload without its unresolved entries
Resolved(payload) ==
  SelectSeq(payload, LAMBDA b : ~Unresolved(Decode(b, basic_time_step)))

\* C13: the dispatch of a batch leaves the reporting set, the pending set, the
\* sampling periods and the actuator targets as the batch without its
\* unresolved entries would (so the other entries are processed and an
\* unresolved one mutates nothing), and adds to the snapshot, for each name,
\* one warning naming it per unresolved entry naming it, and nothing else.
C13_UnknownDeviceWarnsOnly ==
  [][hist'.dispatches = hist.dispatches + 1 =>
       LET payload == hist'.last
           expected == processBuffer(DeviceState, Resolved(payload), basic_time_step)
           msgs == sensor_measurements'.messages
       IN /\ sensors' = expected.sensors
          /\ new_sensors' = expected.new_sensors
          /\ samplingPeriod' = expected.period
          /\ motorPosition' = expected.motor
          /\ actuators' = expected.act
          /\ Len(msgs) = Len(expected.messages)
                           + Len(payload) - Len(Resolved(payload))
          /\ \A n \in Names :
               WarningsNaming(msgs, n) =
                 WarningsNaming(expected.messages, n) + UnresolvedNaming(payload, n)
    ]_vars

\* C13 witness: a batch of an unknown motor and a known one has been
\* dispatched; the known motor has its target and one warning names the other
C13_Witness ==
  /\ hist.dispatches = 1
  /\ hist.last = <<9, 8>>
  /\ motorPosition["motor"] = 1
  /\ WarningsNaming(sensor_measurements.messages, "ghost") = 1

\* C14 as claimed: the payload handed to send in a step holds every warning
\* produced by the dispatches of that step.
C14_WarningsSent ==
  Checked => IsPrefix(hist.warned, sensor_measurements.messages)

\* C14 as amended: the payload handed to send in a step holds every warning
\* produced by the dispatches of that step, in order, unless the quota check
\* replaces the snapshot: then it holds the error entry only and the step's
\* warnings are dropped.  The snapshot is empty between two steps, so that no
\* warning is carried to a later step.
C14_WarningsSentUnlessReplaced ==
  /\ (Checked /\ hist.usage <= TEAM_QUOTA) =>
        IsPrefix(hist.warned, sensor_measurements.messages)
  /\ (Checked /\ hist.usage > TEAM_QUOTA) =>
        sensor_measurements.messages = <<QuotaError>>
  /\ pc = "idle" => sensor_measurements.messages = <<>>

\* C14 witness: a warning produced in this step is in the payload handed to send
C14_Witness ==
  /\ Checked
  /\ hist.usage <= TEAM_QUOTA
  /\ hist.warned # <<>>
  /\ \A i \in 1..Len(hist.warned) : sensor_measurements.messages[i] = hist.warned[i]

\* every subscription period of the batch is 0 or a multiple of the step
\* duration not below it
ValidBatch(payload) ==
  \A i \in 1..Len(payload) :
     LET c == Decode(payload[i], basic_time_step) IN
     c.type = "sensor_time_step" =>
        \/ c.value = 0
        \/ (c.value >= basic_time_step /\ c.value % basic_time_step = 0)

\* the batches of up to MaxBatchLen entries a client of this run can write
Batches ==
  {p \in UNION {[1..n -> cfg.codes] : n \in 1..MaxBatchLen} : ValidBatch(p)}

\* updateDevices() on the state a batch changes
Promoted(ds) ==
  LET u == updateDevices(ds.sensors, ds.new_sensors)
  IN [ds EXCEPT !.sensors = u.sensors, !.new_sensors = u.new_sensors]

\* the reporting set, the pending set, the sampling periods and the targets
DeviceCore(ds) == <<ds.sensors, ds.new_sensors, ds.period, ds.motor, ds.act>>

\* C15: idempotence of dispatch.  From every state of a session between two
\* steps, a valid batch dispatched twice in one step, or in two consecutive
\* steps, leaves after promotion the sets, periods and targets that one
\* dispatch leaves.
C15_DispatchIdempotent ==
  (pc = "idle" /\ client_fd # NoFd) =>
    \A p \in Batches :
       LET S == basic_time_step
           once == processBuffer(DeviceState, p, S)
           sameStep == processBuffer(once, p, S)
           nextStep == processBuffer(Promoted(once), p, S)
       IN /\ DeviceCore(Promoted(sameStep)) = DeviceCore(Promoted(once))
          /\ DeviceCore(Promoted(nextStep)) = DeviceCore(Promoted(once))

\* the step has promoted its pending devices
Promotion == pc \in {"send", "write"}

\* C16: no device whose sampling period is 0 is in the reporting set or in the
\* pending set; in particular a sensor that was inactive at the start of a
\* step, and was enabled and then disabled in it, is in neither set after the
\* promotion of that step.
C16_NoZeroPeriodInSets ==
  /\ \A d \in sensors \cup new_sensors : samplingPeriod[d] # 0
  /\ Promotion => \A d \in hist.undone : d \notin sensors \cup new_sensors

\* C17: the reporting set and the pending set are disjoint.
C17_SetsDisjoint == sensors \cap new_sensors = {}

\* C17 witness: an enable command has been dispatched for a sensor that is
\* reporting, and has staged nothing
C17_Witness ==
  /\ pc = "prepare"
  /\ hist.dispatches = 1
  /\ "acc" \in AcceptedEnables(hist.last)
  /\ "acc" \in hist.startSensors
  /\ "acc" \in sensors
  /\ new_sensors = {}

\* C18: every device of the reporting set and of the pending set is of a kind
\* the snapshot build supports, and the dispatch of a batch puts no device of
\* another kind into either set.
C18_OnlySupportedKindsInSets ==
  \A d \in sensors \cup new_sensors : NodeType(d) \in SensorTypes

\* the bytes the receiveData() call that returns in this transition has read
BytesOfCall == rd.received + Len(wire) - Len(wire')

\* C19: storage is allocated, and the declared length becomes non-zero, only
\* when the header read has returned all 4 bytes; and the dispatch of a
\* complete message leaves declared length 0 and received count 0.
C19_PendingOnlyAfterWholeHeader ==
  [][/\ (hist'.allocs = hist.allocs + 1 \/ (content_size = 0 /\ content_size' # 0))
          => (rd.header /\ BytesOfCall = 4)
     /\ hist'.dispatches = hist.dispatches + 1
          => (content_size' = 0 /\ recv_index' = 0)
    ]_vars

\* the bytes of the frames the client has written in this session
RECURSIVE FramedBytes(_)
FramedBytes(payloads) ==
  IF payloads = <<>> THEN 0
  ELSE 4 + Len(Head(payloads)) + FramedBytes(Tail(payloads))

\* how many of the leading frames of payloads are whole within the first n bytes
RECURSIVE CompleteFrames(_, _)
CompleteFrames(payloads, n) ==
  IF payloads = <<>> \/ 4 + Len(Head(payloads)) > n THEN 0
  ELSE 1 + CompleteFrames(Tail(payloads), n - 4 - Len(Head(payloads)))

\* the messages of the session whose bytes had all arrived when the step's
\* receive stage ran (bytes arrive between steps only)
Available ==
  SubSeq(hist.clientPayloads, 1,
         CompleteFrames(hist.clientPayloads,
                        FramedBytes(hist.clientPayloads) - Len(toSend)))

\* the message boundaries of a sequence of payloads
Lengths(payloads) == [i \in 1..Len(payloads) |-> Len(payloads[i])]

\* C20: when the receive stage of a step ends with the session open, every
\* message whose bytes had all arrived has been dispatched, one dispatch per
\* message and in arrival order (the i-th dispatch is of the i-th message's
\* bytes); and no message is dispatched after the receive stage, that is at or
\* after the build of the snapshot.
C20_CompleteMessagesDrained ==
  [][/\ hist'.dispatches > hist.dispatches => pc = "receive"
     /\ (pc = "receive" /\ pc' = "prepare" /\ client_fd' # NoFd)
          => IsPrefix(Lengths(Available'), Lengths(hist'.handed))
    ]_vars

\* how many times each value occurs in a sequence
Occurrences(s) ==
  [v \in {s[i] : i \in DOMAIN s} |-> Cardinality({i \in DOMAIN s : s[i] = v})]

\* the sizes of the last n connected steps, zero for the steps not yet taken
LastSteps(sizes, n) ==
  LET padded == [i \in 1..n |-> 0] \o sizes
  IN SubSeq(padded, Len(padded) - n + 1, Len(padded))

\* C21: after the quota check of a connected step, the slots of the player's
\* own window are the payload sizes of the player's most recent window_size
\* connected steps, one slot per step, zero for steps not yet taken - whatever
\* sessions those steps belong to.
C21_OwnWindowCoverage ==
  Checked =>
    Occurrences(data_transferred)
      = Occurrences(LastSteps(hist.recorded, window_size(basic_time_step)))

\* the slots a team mate has published: none when it has no file
Slots(f) == IF f = Missing THEN <<>> ELSE f

\* stands for a sum that is more than an int holds
Beyond == -1

\* the sum of sizes, which are not negative
RECURSIVE Total(_)
Total(s) ==
  IF s = <<>> THEN 0
  ELSE LET rest == Total(Tail(s))
       IN IF rest = Beyond \/ Head(s) = Beyond \/ Head(s) > IntMax - rest
            THEN Beyond ELSE Head(s) + rest

\* C22: the quota check writes the size of the step's payload at slot
\* (step index mod window_size) of the player's window and returns the sum of
\* the window's slots plus the slots published by the team mates 1..4 other
\* than the player, a missing file counting for nothing.
C22_TeamSum ==
  Checked =>
    /\ data_transferred[((controller_time \div basic_time_step)
                           % window_size(basic_time_step)) + 1]
         = ByteSizeLong(hist.original)
    /\ LET team == Total([i \in 1..4 |-> IF i = player_id
                                            THEN Total(data_transferred)
                                            ELSE Total(Slots(files[i]))])
       IN team # Beyond /\ hist.usage = team

\* C23: once a send has stopped partway through a frame, nothing more is
\* written to that session, so that the bytes written to a session after the
\* welcome token are whole frames followed by at most one part of a frame.
C23_OutboundFraming ==
  [][(pc = "write" /\ hist.torn /\ client_fd # NoFd)
       => hist'.sendOk = "failed"]_vars

\* C24: the teardown of a session and the admission of a client leave the
\* reporting set, the pending set and every sampling period as they are, the
\* admission sets the clock to 0, and a sensor that is reporting when a step of
\* a later session starts is in the snapshot of that step when the time is a
\* multiple of its period, unless a disable command for it was dispatched.
C24_SubscriptionsOutliveSession ==
  [][/\ client_fd' # client_fd
          => /\ sensors' = sensors
             /\ new_sensors' = new_sensors
             /\ samplingPeriod' = samplingPeriod
     /\ (client_fd = NoFd /\ client_fd' # NoFd) => controller_time' = 0
     /\ (pc = "prepare" /\ pc' = "update" /\ hist.sessions > 1)
          => \A d \in hist.startSensors \ hist.disabledCur :
               (samplingPeriod[d] # 0 /\ Sampled(controller_time, samplingPeriod[d]))
                 => d \in sensor_measurements'.measurements
    ]_vars

\* C24 witness: the first snapshot built for the second client holds the
\* measurement of a sensor that was reporting when that client was admitted
C24_Witness ==
  /\ Built
  /\ hist.sessions = 2
  /\ controller_time = basic_time_step
  /\ "acc" \in hist.startSensors
  /\ "acc" \in sensor_measurements.measurements

====
